---- MODULE Spec2Model ----
(***************************************************************************)
(* Asset identity derivation and wire codec of ironfish-rust               *)
(* (src/ironfish-rust/src/assets/asset.rs).                                *)
(*                                                                         *)
(* Bytes are integers 0..255, strings and byte arrays are sequences of     *)
(* bytes.  The blake2s digest of a byte stream is represented by the       *)
(* stream itself (a collision-free hash); whether a digest decodes to a    *)
(* subgroup point is decided by an oracle fixed in the initial state.      *)
(***************************************************************************)
EXTENDS Integers, Sequences, FiniteSets, Bags, TLC

VARIABLES curve, call, frame, result, attempts, wire, edits

vars == <<curve, call, frame, result, attempts, wire, edits>>

-----------------------------------------------------------------------------
(* Program constants *)

NAME_LENGTH == 32
METADATA_LENGTH == 96
PUBLIC_ADDRESS_SIZE == 32
ASSET_LENGTH == NAME_LENGTH + PUBLIC_ADDRESS_SIZE + METADATA_LENGTH + 1
U8_MAX == 255

\* The protocol constant hashed before the asset info, shortened to four
\* bytes.
GH_FIRST_BLOCK == <<48, 57, 54, 98>>

-----------------------------------------------------------------------------
(* Bounds of the model *)

\* Longest short name/metadata string handed to Asset::new.
MaxStrLen == 2
\* Bytes an adversary changes between a construction and a read.
MaxEdits == 1

-----------------------------------------------------------------------------
(* Results *)

Ok(v) == [ok |-> TRUE, val |-> v]
Err(e) == [ok |-> FALSE, err |-> e]

Repeat(b, n) == [i \in 1..n |-> b]

\* Sum of the bytes of s: the bytes, each plus one, are the multiplicities of
\* a bag over the positions of s.
Checksum(s) == BagCardinality([i \in 1..Len(s) |-> s[i] + 1]) - Len(s)

-----------------------------------------------------------------------------
(* External collaborators *)

\* str::trim: strips leading and trailing white space.
IsWhitespace(c) == c \in {9, 10, 11, 12, 13, 32}

RECURSIVE TrimStart(_)
TrimStart(s) ==
    IF s # <<>> /\ IsWhitespace(Head(s)) THEN TrimStart(Tail(s)) ELSE s

RECURSIVE TrimEnd(_)
TrimEnd(s) ==
    IF s # <<>> /\ IsWhitespace(s[Len(s)])
    THEN TrimEnd(SubSeq(s, 1, Len(s) - 1))
    ELSE s

trim(s) == TrimEnd(TrimStart(s))

\* util::str_to_array: the first `size` bytes of the string, zero padded.
str_to_array(string, size) ==
    [i \in 1..size |-> IF i <= Len(string) THEN string[i] ELSE 0]

\* The decoding of 32 bytes as a point of the subgroup succeeds on some byte
\* strings only.  For digests the initial state fixes which ones (`curve`, a
\* set of residues of the byte sum); for addresses they are fixed here.
PointModulus == 512
KeyModulus == 4

KeyResidues == {0, 1}

IsPoint(digest) == (Checksum(digest) % PointModulus) \in curve
IsKey(bytes) == (Checksum(bytes) % KeyModulus) \in KeyResidues

\* AssetIdentifier::new
AssetIdentifier_new(digest) ==
    IF IsPoint(digest) THEN Ok(digest) ELSE Err("InvalidAssetIdentifier")

\* AssetIdentifier::asset_generator / value_commitment_generator
asset_generator(id) == [map |-> "asset_generator", digest |-> id]
value_commitment_generator(id) ==
    [map |-> "value_commitment_generator", digest |-> id]

\* io::Read::read_exact on a reader holding `reader`
read_exact(reader, n) ==
    IF Len(reader) < n
    THEN Err("Io")
    ELSE Ok([buf |-> SubSeq(reader, 1, n),
             rest |-> SubSeq(reader, n + 1, Len(reader))])

\* PublicAddress::read
PublicAddress_read(reader) ==
    LET r == read_exact(reader, PUBLIC_ADDRESS_SIZE) IN
    IF ~r.ok THEN r
    ELSE IF ~IsKey(r.val.buf) THEN Err("InvalidPublicAddress")
    ELSE r

\* PublicAddress::write
PublicAddress_write(owner) == owner

-----------------------------------------------------------------------------
(* Asset *)

\* Variant: the nonce is left out of the hashed stream.
asset_id_hash_without_nonce(owner, name, metadata, nonce) ==
    GH_FIRST_BLOCK \o owner \o name \o metadata

asset_id_hash(owner, name, metadata, nonce) ==
    GH_FIRST_BLOCK \o owner \o name \o metadata \o <<nonce>>

\* Variant: the identifier is derived with the first nonce of the search
\* whatever nonce is given.
new_with_nonce_first_nonce(owner, name, metadata, nonce) ==
    LET asset_id == AssetIdentifier_new(asset_id_hash(owner, name, metadata, 0)) IN
    IF ~asset_id.ok
    THEN asset_id
    ELSE Ok([owner |-> owner,
             name |-> name,
             metadata |-> metadata,
             nonce |-> nonce,
             id |-> asset_id.val])

\* Variant: a digest that does not validate is reported as the error of an
\* exhausted search.
new_with_nonce_randomness(owner, name, metadata, nonce) ==
    LET asset_id == AssetIdentifier_new(asset_id_hash(owner, name, metadata, nonce)) IN
    IF ~asset_id.ok
    THEN Err("RandomnessError")
    ELSE Ok([owner |-> owner,
             name |-> name,
             metadata |-> metadata,
             nonce |-> nonce,
             id |-> asset_id.val])

new_with_nonce(owner, name, metadata, nonce) ==
    LET asset_id == AssetIdentifier_new(asset_id_hash(owner, name, metadata, nonce)) IN
    IF ~asset_id.ok
    THEN asset_id
    ELSE Ok([owner |-> owner,
             name |-> name,
             metadata |-> metadata,
             nonce |-> nonce,
             id |-> asset_id.val])

\* Variant: u8::wrapping_add, which never reports the overflow.
wrapping_add(n, d) == Ok((n + d) % (U8_MAX + 1))

\* u8::checked_add
checked_add(n, d) == IF n + d > U8_MAX THEN Err("overflow") ELSE Ok(n + d)

\* Variant: io::Read::read, which leaves the buffer zeroed where the input
\* ends early.
read_short(reader, n) ==
    Ok([buf |-> [i \in 1..n |-> IF i <= Len(reader) THEN reader[i] ELSE 0],
        rest |-> SubSeq(reader, n + 1, Len(reader))])

\* Variant: the name, the metadata and the nonce are read with read_short.
read_without_exact(reader) ==
    LET owner == PublicAddress_read(reader) IN
    IF ~owner.ok THEN [res |-> Err(owner.err), tried |-> <<>>] ELSE
    LET name == read_short(owner.val.rest, NAME_LENGTH)
        metadata == read_short(name.val.rest, METADATA_LENGTH)
        nonce == read_short(metadata.val.rest, 1)
    IN  [res |-> new_with_nonce(owner.val.buf, name.val.buf, metadata.val.buf,
                                nonce.val.buf[1]),
         tried |-> <<nonce.val.buf[1]>>]

read(reader) ==
    LET owner == PublicAddress_read(reader) IN
    IF ~owner.ok THEN [res |-> Err(owner.err), tried |-> <<>>] ELSE
    LET name == read_exact(owner.val.rest, NAME_LENGTH) IN
    IF ~name.ok THEN [res |-> name, tried |-> <<>>] ELSE
    LET metadata == read_exact(name.val.rest, METADATA_LENGTH) IN
    IF ~metadata.ok THEN [res |-> metadata, tried |-> <<>>] ELSE
    LET nonce == read_exact(metadata.val.rest, 1) IN
    IF ~nonce.ok THEN [res |-> nonce, tried |-> <<>>] ELSE
    [res |-> new_with_nonce(owner.val.buf, name.val.buf, metadata.val.buf,
                            nonce.val.buf[1]),
     tried |-> <<nonce.val.buf[1]>>]

\* Variant: the metadata is written before the name.
write_metadata_first(asset) ==
    PublicAddress_write(asset.owner) \o asset.metadata \o asset.name
        \o <<asset.nonce>>

write(asset) ==
    PublicAddress_write(asset.owner) \o asset.name \o asset.metadata
        \o <<asset.nonce>>

-----------------------------------------------------------------------------
(* Inputs *)

\* Characters of the strings handed to Asset::new: space and 'a'.
Chars == {32, 97}

Strings(n) == UNION {[1..k -> Chars] : k \in 0..n}

\* Names: every short string, and two longer than the name field.
Names ==
    Strings(MaxStrLen)
        \cup {Repeat(97, NAME_LENGTH + 1), Repeat(32, NAME_LENGTH + 1)}

\* Metadata: empty, white space, and one longer than the metadata field.
Metadatas == {<<>>, <<32>>, Repeat(98, METADATA_LENGTH + 1)}

\* Byte arrays handed to new_with_nonce directly.
NameArrays == {str_to_array(s, NAME_LENGTH) : s \in Names}
MetadataArrays == {str_to_array(s, METADATA_LENGTH) : s \in Metadatas}
NonceInputs == {0, 1, 7, U8_MAX}

\* A PublicAddress value always holds bytes that decode.
Owners == {o \in {Repeat(81, PUBLIC_ADDRESS_SIZE), Repeat(84, PUBLIC_ADDRESS_SIZE)} : IsKey(o)}

\* Outcomes of point decoding the oracle may fix.
PointResidues == {418, 419}

\* Offsets of the serialized form where a byte is changed: the first and the
\* last byte of the owner, name, metadata and nonce regions.
TamperOffsets ==
    {1, PUBLIC_ADDRESS_SIZE,
     PUBLIC_ADDRESS_SIZE + 1, PUBLIC_ADDRESS_SIZE + NAME_LENGTH,
     PUBLIC_ADDRESS_SIZE + NAME_LENGTH + 1, ASSET_LENGTH - 1,
     ASSET_LENGTH}
TamperDeltas == {1, U8_MAX}

\* Lengths the serialized form is cut to: the end of each field before the
\* last, and one length inside a field.
TruncLens ==
    {0, PUBLIC_ADDRESS_SIZE, PUBLIC_ADDRESS_SIZE + 1,
     PUBLIC_ADDRESS_SIZE + NAME_LENGTH, ASSET_LENGTH - 1}

-----------------------------------------------------------------------------
(* State machine *)

NoCall == [op |-> "none"]
NoResult == Err("none")

Init ==
    /\ curve \in SUBSET PointResidues
    /\ call = NoCall
    /\ frame = <<>>
    /\ result = NoResult
    /\ attempts = <<>>
    /\ wire = <<>>
    /\ edits = 0

\* Variant of New: the search starts at nonce 1.
New_from_one(owner, name, metadata) ==
    /\ call.op = "none"
    /\ call' = [op |-> "new", owner |-> owner, name |-> name,
                metadata |-> metadata]
    /\ LET trimmed_name == trim(name) IN
        IF trimmed_name = <<>>
        THEN /\ result' = Err("InvalidData")
             /\ frame' = <<>>
        ELSE /\ result' = NoResult
             /\ frame' = <<[owner |-> owner,
                            name_bytes |-> str_to_array(trimmed_name, NAME_LENGTH),
                            metadata_bytes |-> str_to_array(metadata, METADATA_LENGTH),
                            nonce |-> 1]>>
    /\ UNCHANGED <<curve, attempts, wire, edits>>

\* Variant of New: the name is checked before it is trimmed.
New_checks_untrimmed(owner, name, metadata) ==
    /\ call.op = "none"
    /\ call' = [op |-> "new", owner |-> owner, name |-> name,
                metadata |-> metadata]
    /\ LET trimmed_name == trim(name) IN
        IF name = <<>>
        THEN /\ result' = Err("InvalidData")
             /\ frame' = <<>>
        ELSE /\ result' = NoResult
             /\ frame' = <<[owner |-> owner,
                            name_bytes |-> str_to_array(trimmed_name, NAME_LENGTH),
                            metadata_bytes |-> str_to_array(metadata, METADATA_LENGTH),
                            nonce |-> 0]>>
    /\ UNCHANGED <<curve, attempts, wire, edits>>

\* Variant of New: the name is encoded as given, not trimmed.
New_encodes_untrimmed(owner, name, metadata) ==
    /\ call.op = "none"
    /\ call' = [op |-> "new", owner |-> owner, name |-> name,
                metadata |-> metadata]
    /\ LET trimmed_name == trim(name) IN
        IF trimmed_name = <<>>
        THEN /\ result' = Err("InvalidData")
             /\ frame' = <<>>
        ELSE /\ result' = NoResult
             /\ frame' = <<[owner |-> owner,
                            name_bytes |-> str_to_array(name, NAME_LENGTH),
                            metadata_bytes |-> str_to_array(metadata, METADATA_LENGTH),
                            nonce |-> 0]>>
    /\ UNCHANGED <<curve, attempts, wire, edits>>

\* Asset::new(owner, name, metadata) up to the loop: the name check, the
\* encoding of both fields and the first nonce.  `frame` holds the locals of
\* the running call.
New(owner, name, metadata) ==
    /\ call.op = "none"
    /\ call' = [op |-> "new", owner |-> owner, name |-> name,
                metadata |-> metadata]
    /\ LET trimmed_name == trim(name) IN
        IF trimmed_name = <<>>
        THEN /\ result' = Err("InvalidData")
             /\ frame' = <<>>
        ELSE /\ result' = NoResult
             /\ frame' = <<[owner |-> owner,
                            name_bytes |-> str_to_array(trimmed_name, NAME_LENGTH),
                            metadata_bytes |-> str_to_array(metadata, METADATA_LENGTH),
                            nonce |-> 0]>>
    /\ UNCHANGED <<curve, attempts, wire, edits>>

\* One iteration of the loop of Asset::new.
NewAttempt ==
    /\ frame # <<>>
    /\ LET f == frame[1]
           r == new_with_nonce(f.owner, f.name_bytes, f.metadata_bytes, f.nonce)
           next == checked_add(f.nonce, 1)
       IN  /\ attempts' = Append(attempts, f.nonce)
           /\ IF r.ok
              THEN result' = r /\ frame' = <<>>
              ELSE IF ~next.ok
              THEN result' = Err("RandomnessError") /\ frame' = <<>>
              ELSE result' = result /\ frame' = <<[f EXCEPT !.nonce = next.val]>>
    /\ UNCHANGED <<curve, call, wire, edits>>

\* Asset::new_with_nonce(owner, name, metadata, nonce)
NewWithNonce(owner, name, metadata, nonce) ==
    /\ call.op = "none"
    /\ call' = [op |-> "new_with_nonce", owner |-> owner, name |-> name,
                metadata |-> metadata, nonce |-> nonce]
    /\ result' = new_with_nonce(owner, name, metadata, nonce)
    /\ attempts' = <<nonce>>
    /\ UNCHANGED <<curve, frame, wire, edits>>

\* asset.write(writer) on the Asset the last call returned
Write ==
    /\ result.ok
    /\ wire = <<>>
    /\ wire' = <<[bytes |-> write(result.val), asset |-> result.val]>>
    /\ UNCHANGED <<curve, call, frame, result, attempts, edits>>

\* One byte of the serialized form is changed in flight.
Tamper(offset, delta) ==
    /\ wire # <<>>
    /\ edits < MaxEdits
    /\ offset <= Len(wire[1].bytes)
    /\ wire' = <<[wire[1] EXCEPT !.bytes[offset] = (@ + delta) % (U8_MAX + 1)]>>
    /\ edits' = edits + 1
    /\ UNCHANGED <<curve, call, frame, result, attempts>>

\* The serialized form is cut short in flight.
Truncate(k) ==
    /\ wire # <<>>
    /\ k < Len(wire[1].bytes)
    /\ wire' = <<[wire[1] EXCEPT !.bytes = SubSeq(@, 1, k)]>>
    /\ UNCHANGED <<curve, call, frame, result, attempts, edits>>

\* The reader holds more bytes after the serialized form.
Extend(b) ==
    /\ wire # <<>>
    /\ Len(wire[1].bytes) = ASSET_LENGTH
    /\ wire' = <<[wire[1] EXCEPT !.bytes = Append(@, b)]>>
    /\ UNCHANGED <<curve, call, frame, result, attempts, edits>>

\* Asset::read(reader) on the bytes in flight
Read ==
    /\ wire # <<>>
    /\ LET r == read(wire[1].bytes) IN
        /\ call' = [op |-> "read", bytes |-> wire[1].bytes,
                    src |-> wire[1].asset]
        /\ result' = r.res
        /\ attempts' = r.tried
    /\ wire' = <<>>
    /\ UNCHANGED <<curve, frame, edits>>

\* The values of the last call go out of scope.
Drop ==
    /\ call.op # "none"
    /\ frame = <<>>
    /\ call' = NoCall
    /\ result' = NoResult
    /\ attempts' = <<>>
    /\ wire' = <<>>
    /\ edits' = 0
    /\ UNCHANGED <<curve, frame>>

Next ==
    \/ \E owner \in Owners, name \in Names, metadata \in Metadatas :
          New(owner, name, metadata)
    \/ NewAttempt
    \/ \E owner \in Owners, name \in NameArrays, metadata \in MetadataArrays,
          nonce \in NonceInputs :
          NewWithNonce(owner, name, metadata, nonce)
    \/ Write
    \/ \E offset \in TamperOffsets, delta \in TamperDeltas : Tamper(offset, delta)
    \/ \E k \in TruncLens : Truncate(k)
    \/ \E b \in {0} : Extend(b)
    \/ Read
    \/ Drop

Spec == Init /\ [][Next]_vars

-----------------------------------------------------------------------------
(* Vocabulary of the properties *)

\* The call `op` has returned and its result has not been used yet.
Returned(op) == call.op = op /\ frame = <<>> /\ wire = <<>>

\* A string that is empty or holds white space only.
WhitespaceOnly(s) == \A i \in 1..Len(s) : IsWhitespace(s[i])

\* A name field whose text, without the zero padding, is empty after trimming.
EmptyNameField(name) == \A i \in 1..Len(name) : name[i] = 0 \/ IsWhitespace(name[i])

\* The encoded inputs of the running or returned call of Asset::new.
NameBytesOf(c) == str_to_array(trim(c.name), NAME_LENGTH)
MetadataBytesOf(c) == str_to_array(c.metadata, METADATA_LENGTH)

\* The digest of nonce n for the inputs of the call of Asset::new.
Validates(c, n) ==
    IsPoint(asset_id_hash(c.owner, NameBytesOf(c), MetadataBytesOf(c), n))

\* a and b have the same length and differ in exactly one position.
OneByteChanged(a, b) ==
    /\ Len(a) = Len(b)
    /\ Cardinality({i \in 1..Len(a) : a[i] # b[i]}) = 1

\* The fields at their fixed offsets of a complete serialized form.
OwnerAt(b) == SubSeq(b, 1, PUBLIC_ADDRESS_SIZE)
NameAt(b) == SubSeq(b, PUBLIC_ADDRESS_SIZE + 1, PUBLIC_ADDRESS_SIZE + NAME_LENGTH)
MetadataAt(b) ==
    SubSeq(b, PUBLIC_ADDRESS_SIZE + NAME_LENGTH + 1,
           PUBLIC_ADDRESS_SIZE + NAME_LENGTH + METADATA_LENGTH)
NonceAt(b) == b[PUBLIC_ADDRESS_SIZE + NAME_LENGTH + METADATA_LENGTH + 1]
DigestAt(b) == asset_id_hash(OwnerAt(b), NameAt(b), MetadataAt(b), NonceAt(b))

-----------------------------------------------------------------------------
(* Properties *)

\* C1: when Asset::new returns an Asset with nonce n, the digest of n
\* validates and the digest of every nonce below n does not: n is the least
\* valid nonce.
C1_MinimalNonce ==
    (Returned("new") /\ result.ok) =>
        /\ result.val.nonce \in 0..U8_MAX
        /\ Validates(call, result.val.nonce)
        /\ \A m \in 0..(result.val.nonce - 1) : ~Validates(call, m)

\* Asset::new returned the last nonce of the range, every earlier one having
\* failed.
C1_Witness ==
    Returned("new") /\ result.ok /\ result.val.nonce = U8_MAX

\* C2: Asset::new with an empty or white-space-only name fails with
\* InvalidData before any nonce is tried; with any other name it never returns
\* InvalidData.
C2_EmptyNameRejected ==
    call.op = "new" =>
        IF WhitespaceOnly(call.name)
        THEN frame = <<>> /\ result = Err("InvalidData") /\ attempts = <<>>
        ELSE result # Err("InvalidData")

\* Asset::new was called with a non-empty name of white space and failed.
C2_Witness ==
    /\ Returned("new")
    /\ call.name # <<>>
    /\ WhitespaceOnly(call.name)
    /\ result = Err("InvalidData")

\* C3: read of the bytes write produced for an Asset succeeds and returns an
\* Asset with the same owner, name, metadata, nonce and id.
C3_RoundTrip ==
    (Returned("read") /\ call.bytes = write(call.src)) =>
        /\ result.ok
        /\ result.val.owner = call.src.owner
        /\ result.val.name = call.src.name
        /\ result.val.metadata = call.src.metadata
        /\ result.val.nonce = call.src.nonce
        /\ result.val.id = call.src.id

\* The unchanged bytes of an Asset were read back.
C3_Witness ==
    /\ Returned("read")
    /\ call.bytes = write(call.src)
    /\ result.ok
    /\ result.val.nonce > 1

\* C4: the id of every Asset is the validated digest of its own owner, name,
\* metadata and nonce, so Assets with the same four fields have the same id
\* and the same generator points.
C4_IdIsDigestOfFields ==
    /\ result.ok =>
        /\ result.val.id = asset_id_hash(result.val.owner, result.val.name,
                                         result.val.metadata, result.val.nonce)
        /\ IsPoint(result.val.id)
    /\ (Returned("read") /\ result.ok
            /\ result.val.owner = call.src.owner
            /\ result.val.name = call.src.name
            /\ result.val.metadata = call.src.metadata
            /\ result.val.nonce = call.src.nonce) =>
        /\ result.val.id = call.src.id
        /\ asset_generator(result.val.id) = asset_generator(call.src.id)
        /\ value_commitment_generator(result.val.id)
              = value_commitment_generator(call.src.id)

\* An Asset was decoded from a reader holding the bytes of another Asset and
\* more: two Assets with the same fields built on different paths.
C4_Witness ==
    /\ Returned("read")
    /\ Len(call.bytes) > ASSET_LENGTH
    /\ result.ok
    /\ result.val = call.src

\* C5: no Asset has a name that is empty after trimming, whichever of new,
\* new_with_nonce and read built it.
C5_NoEmptyName ==
    result.ok => ~EmptyNameField(result.val.name)

\* C6 as stated: a failing new_with_nonce returns the error Asset::new returns
\* when its search is exhausted.
C6_SameErrorAsExhaustion ==
    (Returned("new_with_nonce") /\ ~result.ok) => result = Err("RandomnessError")

\* C6 amended: a failing new_with_nonce has tried the supplied nonce only and
\* returns the invalid-identifier error, while an exhausted search of
\* Asset::new returns the randomness error.
C6_FailsWithoutSearch ==
    /\ (Returned("new_with_nonce") /\ ~result.ok) =>
        /\ attempts = <<call.nonce>>
        /\ result = Err("InvalidAssetIdentifier")
    /\ (Returned("new") /\ Len(attempts) = U8_MAX + 1 /\ ~result.ok) =>
        result = Err("RandomnessError")

\* new_with_nonce was given the nonce 7 and failed.
C6_Witness ==
    Returned("new_with_nonce") /\ ~result.ok /\ call.nonce = 7

\* C7: read returns an Asset only for input holding the complete fixed-width
\* fields whose digest validates, and then the Asset of exactly those fields;
\* on shorter input or on a digest that does not validate it returns an error.
C7_ReadCompleteAndValid ==
    Returned("read") =>
        /\ result.ok =>
            /\ Len(call.bytes) >= ASSET_LENGTH
            /\ IsPoint(DigestAt(call.bytes))
            /\ result.val = [owner |-> OwnerAt(call.bytes),
                             name |-> NameAt(call.bytes),
                             metadata |-> MetadataAt(call.bytes),
                             nonce |-> NonceAt(call.bytes),
                             id |-> DigestAt(call.bytes)]
        /\ Len(call.bytes) < ASSET_LENGTH => ~result.ok
        /\ (Len(call.bytes) >= ASSET_LENGTH /\ ~IsPoint(DigestAt(call.bytes))) =>
            ~result.ok
        /\ ~result.ok => DOMAIN result = {"ok", "err"}

\* read was given input that lacks the nonce byte only.
C7_Witness ==
    /\ Returned("read")
    /\ Len(call.bytes) = ASSET_LENGTH - 1
    /\ result = Err("Io")

\* C8: an Asset returned by Asset::new has the given owner, the encoding of
\* the trimmed name and the encoding of the metadata as given; one returned
\* by new_with_nonce has the owner, name, metadata and nonce it was given.
C8_FieldsCarried ==
    /\ (Returned("new") /\ result.ok) =>
        /\ result.val.owner = call.owner
        /\ result.val.name = str_to_array(trim(call.name), NAME_LENGTH)
        /\ result.val.metadata = str_to_array(call.metadata, METADATA_LENGTH)
    /\ (Returned("new_with_nonce") /\ result.ok) =>
        /\ result.val.owner = call.owner
        /\ result.val.name = call.name
        /\ result.val.metadata = call.metadata
        /\ result.val.nonce = call.nonce

\* Asset::new succeeded on a name with surrounding white space and a
\* metadata of white space.
C8_Witness ==
    /\ Returned("new")
    /\ result.ok
    /\ trim(call.name) # call.name
    /\ call.metadata = <<32>>

\* C9: read of the serialized form of an Asset with one byte changed fails or
\* returns an Asset with another id.
C9_TamperDetected ==
    (Returned("read") /\ OneByteChanged(write(call.src), call.bytes)) =>
        (~result.ok \/ result.val.id # call.src.id)

\* A serialized form with one byte changed was decoded into an Asset.
C9_Witness ==
    /\ Returned("read")
    /\ OneByteChanged(write(call.src), call.bytes)
    /\ result.ok

\* C10: the search of Asset::new tries 0, 1, 2, ... in order, each nonce once,
\* makes at most 256 attempts (while it runs fewer than 256 are made and the
\* next one can be taken), and returns the randomness error exactly when all
\* of 0..255 fail; it never returns the invalid-identifier error.
C10_BoundedOrderedSearch ==
    call.op = "new" =>
        /\ \A i \in 1..Len(attempts) : attempts[i] = i - 1
        /\ Len(attempts) <= U8_MAX + 1
        /\ frame # <<>> =>
            /\ Len(attempts) <= U8_MAX
            /\ frame[1].nonce = Len(attempts)
            /\ ENABLED NewAttempt
        /\ result # Err("InvalidAssetIdentifier")
        /\ (Returned("new") /\ ~WhitespaceOnly(call.name)) =>
            /\ result.ok \/ result = Err("RandomnessError")
            /\ result = Err("RandomnessError")
                  <=> \A n \in 0..U8_MAX : ~Validates(call, n)

\* The search ran through all 256 nonces and gave up.
C10_Witness ==
    /\ Returned("new")
    /\ result = Err("RandomnessError")
    /\ Len(attempts) = U8_MAX + 1

====
